---- MODULE Spec2Model ----
(***************************************************************************)
(* Model of saute's TextScreen (src/src/screen_manager.rs): an editable    *)
(* glyph buffer with an absolute cursor, a cached (row, column) cursor     *)
(* address, a highlight mark and a wrapping layout pass (render_all).      *)
(*                                                                         *)
(* The fields cursor_abs, cursor_col, cursor_row and highlight_mark are    *)
(* u32.  Rust's `+` and `-` on u32 panic on overflow when the build has    *)
(* overflow checks (the dev profile) and wrap modulo 2^32 when it has not  *)
(* (the release profile); the build is chosen once, in Init.  A panic      *)
(* ends the program: no operation runs after it.                           *)
(*                                                                         *)
(* TLC's integers are 32 bits wide and signed, so a u32 is held as the     *)
(* two's-complement reading of its 32 bits: v itself below 2^31 and        *)
(* v - 2^32 from 2^31 on.  u32::MAX = 2^32 - 1 is -1, 2^32 - 2 is -2.      *)
(* Addition and subtraction modulo 2^32 are then plain + and -, and the    *)
(* unsigned order is ult.                                                  *)
(*                                                                         *)
(* The second part models the glyph atlas of src/src/main.rs: build_atlas  *)
(* rasterizes the code points of the ANSI range into one surface, stores   *)
(* a lookup table of AtlasEntry in a FontDef, and render_from_atlas reads  *)
(* it back.                                                                *)
(***************************************************************************)
EXTENDS Integers, Sequences, FiniteSets, TLC

\* ------------------------------------------------------------------ bounds

\* Longest content the model builds (push_char is disabled at this length).
MaxLen == 4

\* How far below 0 (that is, below 2^32) and above MaxLen the model follows a
\* wrapped cursor_row or cursor_col.
MaxDrift == 1

\* Longest content the layout passes are run on.
MaxRenderLen == 3

\* Longest text render_to_canvas is given.
MaxTextLen == 2

\* The number of lines render_to_canvas is followed for.
MaxLines == 3

\* ------------------------------------------------------------- constants

\* u32::MAX (2^32 - 1), the "no mark" sentinel of highlight_mark.
NONE == -1

NL == "\n"

\* The characters the model types.
Chars == {"A", NL}

\* Viewport widths given to TextScreen::new and set_width.
Widths == {4, 7}

\* Row heights given to TextScreen::new.
RowHeights == {3}

\* Screen heights given to TextScreen::new.
Heights == {9}

\* The characters the layout passes are run on: Chars and a narrow letter.
Glyphs == Chars \cup {"i"}

\* The glyph records behind the characters (the FontChar values handed to
\* push_char): bitmap width and height, advance, bearings.
FontTable ==
    [c \in Glyphs |->
        IF c = NL
        THEN [ch |-> c, w |-> 1, h |-> 1, _ax |-> 1, _ay |-> 0, bl |-> 0, bt |-> 0]
        ELSE IF c = "i"
        THEN [ch |-> c, w |-> 1, h |-> 3, _ax |-> 1, _ay |-> 0, bl |-> 0, bt |-> 2]
        ELSE [ch |-> c, w |-> 2, h |-> 3, _ax |-> 2, _ay |-> 0, bl |-> 0, bt |-> 2]]

\* The highlight marks given to set_highlight_mark.
Marks == 0 .. MaxRenderLen

\* The font the renderer has loaded (FontDef), for the glyphs of FontTable.
LoadedFont ==
    [glyph_height |-> 3, glyph_width |-> 2, whitespace_width |-> 1,
     max_ascent |-> 2, max_descent |-> 1, max_back |-> 0, max_forward |-> 2]

\* The number of code points build_atlas rasterizes.
ANSI_CHAR_RANGE == 128

FONT_SIZE == 32

FONT_SPACING == 2 * (FONT_SIZE \div 64)

ATLAS_MAX_WIDTH == 16384

ATLAS_MAX_HEIGHT == 16384

\* usize::MAX, the key of the atlas texture in the texture table.
ATLAS_KEY == -1

\* The pixel sizes build_atlas is called with: main's FONT_SIZE, a smaller
\* one, one whose glyphs fill ATLAS_MAX_WIDTH exactly, two that need more
\* than one row, and one whose atlas is too high.
FontSizes == {16, FONT_SIZE, 128, 200, 256, 8192}

\* The font files: one that rasterizes every code point and one that fails
\* on a code point.
Faces == {"regular", "damaged"}

\* The code points and positions render_from_atlas is called with.
DrawnChars == {32, 65, 83}

DrawnAt == {0, 5}

\* The window width main opens with (Renderer::new).
WIDTH == 800

\* The widths the window is resized to.
ViewWidths == {20, 40}

\* The code points of the texts given to render_to_canvas: the space, a glyph
\* half as wide as the pixel size and one as wide as the pixel size.
CanvasChars == {32, 65, 83}

\* The texts given to render_to_canvas.
Texts == UNION {[1 .. n -> CanvasChars] : n \in 1 .. MaxTextLen}

\* The keys, surfaces and sizes the texture table is called with: the surface
\* without pixels is one the loader cannot make a texture of.
Keys == {0, 1}

Surfaces ==
    {[w |-> 0, h |-> 0, blits |-> <<>>],
     [w |-> 1, h |-> 1, blits |-> <<>>],
     [w |-> 2, h |-> 1, blits |-> <<>>]}

Sizes == {1, 2}

\* ----------------------------------------------------------------- state

VARIABLES
    content,          \* Vec<Rc<FontChar>>, as the sequence of its characters
    width,            \* usize
    height,           \* usize
    row_height,       \* usize
    cursor_abs,       \* u32
    cursor_col,       \* u32
    cursor_row,       \* u32
    highlight_mark,   \* u32
    cursor_enabled,   \* bool (_cursor_enabled)
    panicked,         \* the program has panicked
    overflow_checks,  \* the build panics on u32 overflow (TRUE) or wraps (FALSE)
    op,               \* history: the last operation
    pre,              \* history: the screen before the last operation
    ret,              \* history: what the last pop_char returned (<<>> is None)
    op2,              \* history: the operation before the last one, a pop_char
    pre2,             \* history: <<screen before a push_char>> right after the pop_char that follows it
    push_only,        \* history: only push_char has run so far
    pushed,           \* history: the characters pushed while push_only
    frame,            \* history: <<what the last operation, a render_all, drew>>
    frame2,           \* history: <<what the render_all right before that one drew>>
    loaded_font,      \* Renderer::loaded_font (main.rs FontDef)
    texture_table,    \* Renderer::texture_manager.table: key -> surface loaded
    built,            \* history: <<the arguments and the grid of the build_atlas that completed>>
    tried,            \* history: <<the arguments of the last build_atlas and the renderer before it>>
    drawn,            \* history: <<the call and the result of the last render_from_atlas>>
    view_width,       \* Renderer::width
    canvas_job,       \* render_to_canvas: where it is (pc), its locals render_text and y_coord,
                      \* <<the text passed to its last render_line>> and <<the Rect returned>>
    res_call          \* history: <<the last call of the texture table made on its own>>

vars == <<content, width, height, row_height, cursor_abs, cursor_col, cursor_row,
          highlight_mark, cursor_enabled, panicked, overflow_checks,
          op, pre, ret, op2, pre2, push_only, pushed, frame, frame2,
          loaded_font, texture_table, built, tried, drawn,
          view_width, canvas_job, res_call>>

\* The Renderer's font and textures, with their history.
renderer_vars == <<loaded_font, texture_table, built, tried, drawn>>

\* The viewport, the canvas job and the texture-table call.
canvas_vars == <<view_width, canvas_job, res_call>>

\* The fields of TextScreen and the history of its operations.
screen_vars == <<content, width, height, row_height, cursor_abs, cursor_col,
                 cursor_row, highlight_mark, cursor_enabled, overflow_checks,
                 op, pre, ret, op2, pre2, push_only, pushed, frame, frame2>>

\* The screen as one value: the fields of TextScreen and the panic flag.
Self ==
    [content |-> content, width |-> width, height |-> height,
     row_height |-> row_height, cursor_abs |-> cursor_abs,
     cursor_col |-> cursor_col, cursor_row |-> cursor_row,
     highlight_mark |-> highlight_mark, cursor_enabled |-> cursor_enabled,
     panicked |-> panicked]

\* r's cached cursor address is within the values the model follows.
Followed(r) ==
    /\ r.cursor_row \in -MaxDrift .. MaxLen + MaxDrift
    /\ r.cursor_col \in -(MaxLen + MaxDrift) .. MaxLen + MaxDrift

\* The next state's screen is r.
Install(r) ==
    /\ Followed(r)
    /\ content' = r.content
    /\ width' = r.width
    /\ height' = r.height
    /\ row_height' = r.row_height
    /\ cursor_abs' = r.cursor_abs
    /\ cursor_col' = r.cursor_col
    /\ cursor_row' = r.cursor_row
    /\ highlight_mark' = r.highlight_mark
    /\ cursor_enabled' = r.cursor_enabled
    /\ panicked' = r.panicked
    /\ UNCHANGED renderer_vars

\* ------------------------------------------------------------ u32 and Vec

\* a < b as u32.
ult(a, b) ==
    IF (a >= 0) = (b >= 0) THEN a < b ELSE a >= 0

\* a + b and a - b modulo 2^32.
wrapping_add(a, b) == a + b

wrapping_sub(a, b) == a - b

\* `a + b` on u32 panics: the sum does not fit (b is a small count).
add_panics(a, b) == overflow_checks /\ a < 0 /\ a + b >= 0

\* `a - b` on u32 panics: a < b.
sub_panics(a, b) == overflow_checks /\ ult(a, b)

panic(s) == [s EXCEPT !.panicked = TRUE]

\* Vec::get(i): whether the 0-based index i holds an element.
vec_has(v, i) == i >= 0 /\ i < Len(v)

\* Vec::insert(i, e), 0-based, for i <= len.
vec_insert(v, i, e) == SubSeq(v, 1, i) \o <<e>> \o SubSeq(v, i + 1, Len(v))

\* Vec::remove(i), 0-based, for i < len.
vec_remove(v, i) == SubSeq(v, 1, i) \o SubSeq(v, i + 2, Len(v))

\* content.iter().rev().take_while(|x| x.ch != '\n').count()
rev_take_while_count(v) ==
    LET nls == {i \in 1..Len(v) : v[i] = NL}
    IN  IF nls = {} THEN Len(v)
        ELSE Len(v) - (CHOOSE i \in nls : \A j \in nls : j <= i)

\* ------------------------------------------------------------- TextScreen

new(w, h, rh) ==
    [content |-> <<>>, width |-> w, height |-> h, row_height |-> rh,
     cursor_abs |-> 0, cursor_col |-> 0, cursor_row |-> 0,
     highlight_mark |-> NONE, cursor_enabled |-> FALSE, panicked |-> FALSE]

set_width(s, new_width) == [s EXCEPT !.width = new_width]

cursor_enable(s) == [s EXCEPT !.cursor_enabled = TRUE]

set_highlight_mark(s, pos) == [s EXCEPT !.highlight_mark = pos]

\* cursor_forward that does not reset the column on a newline.
cursor_forward_keeps_col(s) ==
    IF ~vec_has(s.content, s.cursor_abs) THEN s
    ELSE [s EXCEPT !.cursor_col = @ + 1,
                   !.cursor_row = IF s.content[s.cursor_abs + 1] = NL THEN @ + 1 ELSE @,
                   !.cursor_abs = @ + 1]

cursor_forward(s) ==
    IF ~vec_has(s.content, s.cursor_abs) THEN s
    ELSE
        LET fch == s.content[s.cursor_abs + 1]
            s1 == IF fch = NL
                  THEN IF add_panics(s.cursor_row, 1)
                       THEN panic([s EXCEPT !.cursor_col = 0])
                       ELSE [s EXCEPT !.cursor_col = 0,
                                      !.cursor_row = wrapping_add(@, 1)]
                  ELSE IF add_panics(s.cursor_col, 1)
                       THEN panic(s)
                       ELSE [s EXCEPT !.cursor_col = wrapping_add(@, 1)]
        IN  IF s1.panicked THEN s1
            ELSE IF add_panics(s1.cursor_abs, 1) THEN panic(s1)
            ELSE [s1 EXCEPT !.cursor_abs = wrapping_add(@, 1)]

cursor_back(s) ==
    IF sub_panics(s.cursor_abs, 1) THEN panic(s)
    ELSE IF ~vec_has(s.content, wrapping_sub(s.cursor_abs, 1)) THEN s
    ELSE
        LET s1 == IF s.cursor_col = 0
                  THEN IF sub_panics(s.cursor_row, 1)
                       THEN panic(s)
                       ELSE [s EXCEPT !.cursor_row = wrapping_sub(@, 1),
                                      !.cursor_col = rev_take_while_count(s.content)]
                  ELSE s
        IN  IF s1.panicked THEN s1
            ELSE IF sub_panics(s1.cursor_col, 1) THEN panic(s1)
            ELSE [s1 EXCEPT !.cursor_col = wrapping_sub(@, 1),
                            !.cursor_abs = wrapping_sub(@, 1)]

push_char(s, fch) ==
    IF ~(s.cursor_abs >= 0 /\ s.cursor_abs <= Len(s.content)) THEN panic(s)
    ELSE cursor_forward(
            [s EXCEPT !.content = vec_insert(@, s.cursor_abs, fch)])

\* The screen after pop_char and the Option it returns (<<>> is None).
pop_char(s) ==
    LET s1 == cursor_back(s)
    IN  IF s1.panicked THEN [self |-> s1, ret |-> <<>>]
        ELSE IF Len(s1.content) # 0
        THEN IF ~vec_has(s1.content, s1.cursor_abs)
             THEN [self |-> panic(s1), ret |-> <<>>]
             ELSE [self |-> [s1 EXCEPT !.content = vec_remove(@, s1.cursor_abs)],
                   ret |-> <<s1.content[s1.cursor_abs + 1]>>]
        ELSE [self |-> s1, ret |-> <<>>]

\* clear that leaves cursor_abs where it was.
clear_keeps_cursor(s) ==
    [s EXCEPT !.cursor_col = 0, !.cursor_row = 0, !.content = <<>>]

clear(s) ==
    [s EXCEPT !.cursor_col = 0, !.cursor_row = 0, !.cursor_abs = 0,
              !.content = <<>>]

\* ----------------------------------------------------------------- layout

\* char::is_whitespace, on the characters of the model.
is_whitespace(ch) == ch \in {NL, " ", "\t"}

Rect(x, y, w, h) == [x |-> x, y |-> y, w |-> w, h |-> h]

get_char_aligned_rect(font, x, y, info) ==
    LET baseline_dist == font.max_ascent - info.bt
        center_dist == font.max_forward + info.bl
    IN  IF is_whitespace(info.ch)
        THEN Rect(x, y, info._ax, font.glyph_height)
        ELSE Rect(x + center_dist, y + baseline_dist, info.w, info.h)

\* The rectangle a glyph is drawn into: its aligned rectangle.
FontChar_render(font, fch, x, y) == get_char_aligned_rect(font, x, y, fch)

\* The cursor marker put_cursor draws at (x, y): none when the cursor is off.
put_cursor(s, font, x, y) ==
    IF s.cursor_enabled
    THEN <<Rect(x, y, font.glyph_width \div 16, font.glyph_height)>>
    ELSE <<>>

\* render_glyph whose highlight range includes the mark itself.
render_glyph_closed_mark(s, font, x, y, i, acc) ==
    LET fch == FontTable[s.content[i]]
        dst == IF is_whitespace(fch.ch)
               THEN get_char_aligned_rect(font, x + acc.x_offset, y + acc.y_offset, fch)
               ELSE FontChar_render(font, fch, x + acc.x_offset, y + acc.y_offset)
        cur_abs == acc.cur_abs + 1
        x1 == acc.x_offset + dst.w
        lit == /\ s.cursor_enabled
               /\ ~ult(cur_abs, s.highlight_mark)
               /\ ~ult(s.cursor_abs, cur_abs)
        wrap == x + x1 + fch._ax > s.width \/ fch.ch = NL
        x2 == IF wrap THEN 0 ELSE x1
        y2 == IF wrap THEN acc.y_offset + s.row_height ELSE acc.y_offset
    IN  [cur_abs |-> cur_abs, x_offset |-> x2, y_offset |-> y2,
         placed |-> Append(acc.placed, dst),
         highlights |-> IF lit THEN Append(acc.highlights, [index |-> cur_abs, rect |-> dst])
                        ELSE acc.highlights,
         cursors |-> IF s.cursor_abs = cur_abs
                     THEN acc.cursors \o put_cursor(s, font, x + x2, y + y2)
                     ELSE acc.cursors,
         wraps |-> Append(acc.wraps, wrap),
         origins |-> Append(acc.origins, [x |-> acc.x_offset, y |-> acc.y_offset])]

\* One iteration of render_all's loop, for the glyph at 1-based index i: acc
\* holds the loop's locals and what the pass has drawn so far.
render_glyph(s, font, x, y, i, acc) ==
    LET fch == FontTable[s.content[i]]
        dst == IF is_whitespace(fch.ch)
               THEN get_char_aligned_rect(font, x + acc.x_offset, y + acc.y_offset, fch)
               ELSE FontChar_render(font, fch, x + acc.x_offset, y + acc.y_offset)
        cur_abs == acc.cur_abs + 1
        x1 == acc.x_offset + dst.w
        lit == /\ s.cursor_enabled
               /\ ult(s.highlight_mark, cur_abs)
               /\ ~ult(s.cursor_abs, cur_abs)
        wrap == x + x1 + fch._ax > s.width \/ fch.ch = NL
        x2 == IF wrap THEN 0 ELSE x1
        y2 == IF wrap THEN acc.y_offset + s.row_height ELSE acc.y_offset
    IN  [cur_abs |-> cur_abs, x_offset |-> x2, y_offset |-> y2,
         placed |-> Append(acc.placed, dst),
         highlights |-> IF lit THEN Append(acc.highlights, [index |-> cur_abs, rect |-> dst])
                        ELSE acc.highlights,
         cursors |-> IF s.cursor_abs = cur_abs
                     THEN acc.cursors \o put_cursor(s, font, x + x2, y + y2)
                     ELSE acc.cursors,
         wraps |-> Append(acc.wraps, wrap),
         origins |-> Append(acc.origins, [x |-> acc.x_offset, y |-> acc.y_offset])]

RECURSIVE render_loop(_, _, _, _, _, _)
render_loop(s, font, x, y, i, acc) ==
    IF i > Len(s.content) THEN acc
    ELSE render_loop(s, font, x, y, i + 1, render_glyph(s, font, x, y, i, acc))

\* The locals of render_all before its loop, with nothing drawn.
render_start ==
    [cur_abs |-> 0, x_offset |-> 0, y_offset |-> 0,
     placed |-> <<>>, highlights |-> <<>>, cursors |-> <<>>,
     wraps |-> <<>>, origins |-> <<>>]

\* render_all that stores the end of its pass as the cursor column.
render_all_stores_col(s, font, x, y) ==
    LET acc == render_loop(s, font, x, y, 1, render_start)
    IN  [placed |-> acc.placed, highlights |-> acc.highlights,
         cursors |-> acc.cursors, wraps |-> acc.wraps, origins |-> acc.origins,
         ret |-> Rect(x, y, x + acc.x_offset, acc.y_offset),
         self |-> [s EXCEPT !.cursor_col = acc.x_offset]]

\* What a render_all pass draws (placed, highlights, cursors), the running
\* (x_offset, y_offset) each glyph was reached with (origins), where it breaks
\* rows (wraps[i]: a row break follows glyph i), the rectangle it returns
\* (ret) and the screen it leaves (self: the method takes &mut self).
render_all(s, font, x, y) ==
    LET acc == render_loop(s, font, x, y, 1, render_start)
    IN  [placed |-> acc.placed, highlights |-> acc.highlights,
         cursors |-> acc.cursors, wraps |-> acc.wraps, origins |-> acc.origins,
         ret |-> Rect(x, y, x + acc.x_offset, acc.y_offset),
         self |-> s]

\* ------------------------------------------------------------------ atlas

\* FontDef::default(): what Renderer::new installs.
FontDef_default ==
    [glyph_height |-> 0, glyph_width |-> 0, whitespace_width |-> 0,
     char_spacing |-> 0, char_lookup |-> <<>>,
     max_ascent |-> 0, max_descent |-> 0, max_back |-> 0, max_forward |-> 0,
     font_pixel_size |-> 0, monospaced |-> FALSE]

\* The sum of the widths of the entries of char_lookup, taken width by
\* width over the set W of widths that occur.
RECURSIVE sum_widths(_, _)
sum_widths(char_lookup, W) ==
    IF W = {} THEN 0
    ELSE LET w == CHOOSE w \in W : TRUE
         IN  w * Cardinality({k \in DOMAIN char_lookup : char_lookup[k].width = w})
                 + sum_widths(char_lookup, W \ {w})

FontDef_new(char_lookup, max_height, max_width, char_spacing, max_ascent, max_descent, max_back, max_forward, font_pixel_size, monospaced) ==
    LET avg_width ==
            sum_widths(char_lookup, {char_lookup[k].width : k \in DOMAIN char_lookup})
                \div Cardinality(DOMAIN char_lookup)
    IN  [char_lookup |-> char_lookup,
         char_spacing |-> char_spacing,
         glyph_height |-> max_height,
         glyph_width |-> max_width,
         whitespace_width |-> avg_width,
         max_ascent |-> max_ascent,
         max_descent |-> max_descent,
         max_back |-> max_back,
         max_forward |-> max_forward,
         font_pixel_size |-> font_pixel_size,
         monospaced |-> monospaced]

\* main.rs FontDef::get_char_aligned_rect, on an AtlasEntry.
FontDef_get_char_aligned_rect(font, x, y, info) ==
    LET baseline_dist == font.max_ascent - info.bt
        center_dist == IF font.monospaced THEN font.max_forward + info.bl ELSE 0
        w == IF info.width <= 1 THEN font.whitespace_width ELSE info.width
    IN  Rect(x + center_dist, y + baseline_dist, w, info.height)

\* FontDef::get_char: Ok(entry) as <<entry>>, Err(()) as <<>>.
get_char(font, char) ==
    IF char \in DOMAIN font.char_lookup THEN <<font.char_lookup[char]>> ELSE <<>>

AtlasEntry_bbox(info) == Rect(info.x, info.y, info.width, info.height)

\* size_metrics().height >> 6 of a face set to font_size pixels: the line
\* height, an eighth above the pixel size.
line_height(face, font_size) == font_size + font_size \div 8

\* load_char(ch, RENDER) on a face set to font_size pixels, and the glyph slot
\* it leaves: metrics in pixels (the >> 6 done), the advance in 26.6 units as
\* advance() reports it.  Control characters, the space and DEL are blank.
\* The damaged face fails on one code point.
load_char(face, font_size, ch) ==
    LET blank == ch < 33 \/ ch = 127
        q == font_size \div 8
        gw == IF blank THEN 0 ELSE 2 * q + (ch % 4) * 2 * q
        gh == IF blank THEN 0 ELSE 4 * q + (ch % 3) * q
        below == IF ch % 5 = 0 THEN q ELSE 0
    IN  [ok |-> ~(face = "damaged" /\ ch = 100),
         width |-> gw,
         height |-> gh,
         bitmap_left |-> IF blank THEN 0 ELSE ch % 2,
         bitmap_top |-> IF blank THEN 0 ELSE gh - below,
         advance_x |-> 64 * (IF blank THEN 2 * q ELSE gw + 1),
         advance_y |-> 0]

\* The grid build_atlas lays the glyph cells out in.
atlas_grid(font_size) ==
    LET glyph_total_width == ANSI_CHAR_RANGE * font_size
    IN  IF glyph_total_width > ATLAS_MAX_WIDTH
        THEN [rows |-> glyph_total_width \div ATLAS_MAX_WIDTH + 1,
              cols |-> ATLAS_MAX_WIDTH \div font_size,
              width |-> ATLAS_MAX_WIDTH]
        ELSE IF glyph_total_width % ATLAS_MAX_WIDTH = 0
        THEN [rows |-> glyph_total_width \div ATLAS_MAX_WIDTH,
              cols |-> ATLAS_MAX_WIDTH \div font_size,
              width |-> ATLAS_MAX_WIDTH]
        ELSE [rows |-> 1, cols |-> ANSI_CHAR_RANGE, width |-> glyph_total_width]

\* The largest member of the set S of measures of the glyphs loaded, and 0
\* without a larger one: what a running maximum that starts at 0 ends at.
running_max(S) == CHOOSE m \in S \cup {0} : \A v \in S \cup {0} : v <= m

\* The iteration of build_atlas's inner loop for cell k = y * cols + x of the
\* grid g: the code point it loads, the rectangle it blits the glyph to and
\* the AtlasEntry it inserts.
atlas_cell(g, face, font_size, atlas_glyph_height, atlas_height, k) ==
    LET y == k \div g.cols
        x == k % g.cols
        ch == y * g.rows + x
        glyph == load_char(face, font_size, ch)
    IN  [ch |-> ch,
         glyph |-> glyph,
         dest |-> Rect(x * font_size, y * atlas_glyph_height, font_size, atlas_glyph_height),
         entry |-> [_ax |-> glyph.advance_x,
                    _ay |-> glyph.advance_y,
                    x |-> x * FONT_SIZE,
                    y |-> y * atlas_height,
                    height |-> glyph.height,
                    width |-> glyph.width,
                    bl |-> glyph.bitmap_left,
                    bt |-> glyph.bitmap_top]]

\* The last cell of the grid g, in the order of the loops, that loads the
\* code point ch: ch = y * rows + x with x < cols, and the largest such y.
last_cell_of(g, ch) ==
    LET ys == {y \in 0 .. g.rows - 1 : ch - y * g.rows \in 0 .. g.cols - 1}
        y == CHOOSE y \in ys : \A z \in ys : z <= y
    IN  y * g.cols + (ch - y * g.rows)

\* The part of build_atlas before its glyph loop (the grid and the size of
\* the surface), and the iterations of the loop, one per cell
\* 0 .. rows * cols - 1.
atlas_pass(face, font_size) ==
    LET g == atlas_grid(font_size)
        atlas_glyph_height == line_height(face, font_size)
        atlas_height == atlas_glyph_height * g.rows
    IN  [g |-> g,
         atlas_glyph_height |-> atlas_glyph_height,
         atlas_height |-> atlas_height,
         cells |-> [k \in 0 .. g.rows * g.cols - 1 |->
                       atlas_cell(g, face, font_size, atlas_glyph_height, atlas_height, k)]]

\* load_char fails in an iteration of the glyph loop of the pass p.
atlas_failed(p) == \E k \in DOMAIN p.cells : ~p.cells[k].glyph.ok

\* The iterations of the glyph loop of the pass p, as a set.
atlas_loaded(p) == {p.cells[k] : k \in DOMAIN p.cells}

\* The lookup table after the glyph loop of the pass p: map.insert keeps, per
\* code point, the entry of the last cell that loaded it.
atlas_map(p) ==
    [ch \in {p.cells[k].ch : k \in DOMAIN p.cells} |->
        p.cells[last_cell_of(p.g, ch)].entry]

\* The blits of the glyph loop of the pass p, in order.
atlas_blits(p) ==
    [i \in 1 .. p.g.rows * p.g.cols |->
        [ch |-> p.cells[i - 1].ch, dest |-> p.cells[i - 1].dest]]

\* build_atlas that loads the atlas texture as soon as the surface exists,
\* before the glyph loop.
build_atlas_texture_first(r, face, font_size, monospaced) ==
    LET p == atlas_pass(face, font_size)
        max_ascent == running_max({c.glyph.bitmap_top : c \in atlas_loaded(p)})
        max_descent == running_max({c.glyph.height - c.glyph.bitmap_top : c \in atlas_loaded(p)})
        max_back == running_max({c.glyph.bitmap_left : c \in atlas_loaded(p)})
        max_forward == running_max({c.glyph.width - c.glyph.bitmap_left : c \in atlas_loaded(p)})
        max_width == running_max({c.glyph.width : c \in atlas_loaded(p)})
        master_surface == [w |-> p.g.width, h |-> p.atlas_height, blits |-> atlas_blits(p)]
        abort == [loaded_font |-> r.loaded_font, texture_table |-> r.texture_table,
                  panicked |-> TRUE, built |-> <<>>]
        empty_surface == [w |-> p.g.width, h |-> p.atlas_height, blits |-> <<>>]
    IN  IF p.atlas_height > ATLAS_MAX_HEIGHT THEN abort
        ELSE IF ATLAS_KEY \in DOMAIN r.texture_table THEN abort
        ELSE IF atlas_failed(p)
        THEN [abort EXCEPT !.texture_table = (ATLAS_KEY :> empty_surface) @@ r.texture_table]
        ELSE [loaded_font |->
                  FontDef_new(atlas_map(p), max_ascent + max_descent, max_width,
                              FONT_SPACING, max_ascent, max_descent, font_size,
                              max_back, max_forward, monospaced),
              texture_table |-> (ATLAS_KEY :> master_surface) @@ r.texture_table,
              panicked |-> FALSE,
              built |-> <<[face |-> face, font_size |-> font_size,
                           monospaced |-> monospaced,
                           rows |-> p.g.rows, cols |-> p.g.cols,
                           atlas_glyph_height |-> p.atlas_glyph_height]>>]

\* Renderer::build_atlas on the renderer r (its loaded_font and
\* texture_table): the renderer it leaves, whether it panicked, and the
\* arguments and grid of the build (built).
build_atlas(r, face, font_size, monospaced) ==
    LET p == atlas_pass(face, font_size)
        max_ascent == running_max({c.glyph.bitmap_top : c \in atlas_loaded(p)})
        max_descent == running_max({c.glyph.height - c.glyph.bitmap_top : c \in atlas_loaded(p)})
        max_back == running_max({c.glyph.bitmap_left : c \in atlas_loaded(p)})
        max_forward == running_max({c.glyph.width - c.glyph.bitmap_left : c \in atlas_loaded(p)})
        max_width == running_max({c.glyph.width : c \in atlas_loaded(p)})
        master_surface == [w |-> p.g.width, h |-> p.atlas_height, blits |-> atlas_blits(p)]
        abort == [loaded_font |-> r.loaded_font, texture_table |-> r.texture_table,
                  panicked |-> TRUE, built |-> <<>>]
    IN  IF p.atlas_height > ATLAS_MAX_HEIGHT THEN abort
        ELSE IF atlas_failed(p) THEN abort
        ELSE IF ATLAS_KEY \in DOMAIN r.texture_table THEN abort
        ELSE [loaded_font |->
                  FontDef_new(atlas_map(p), max_ascent + max_descent, max_width,
                              FONT_SPACING, max_ascent, max_descent, font_size,
                              max_back, max_forward, monospaced),
              texture_table |-> (ATLAS_KEY :> master_surface) @@ r.texture_table,
              panicked |-> FALSE,
              built |-> <<[face |-> face, font_size |-> font_size,
                           monospaced |-> monospaced,
                           rows |-> p.g.rows, cols |-> p.g.cols,
                           atlas_glyph_height |-> p.atlas_glyph_height]>>]

\* Renderer::render_from_atlas: the rectangle it copies to and returns, or a
\* panic without the entry or without the atlas texture.
render_from_atlas(r, ch, x, y) ==
    LET got == get_char(r.loaded_font, ch)
    IN  IF got = <<>> \/ ATLAS_KEY \notin DOMAIN r.texture_table
        THEN [panicked |-> TRUE, drawn |-> <<>>]
        ELSE LET entry == got[1]
                 src == AtlasEntry_bbox(entry)
                 dst == FontDef_get_char_aligned_rect(r.loaded_font, x, y, entry)
             IN  [panicked |-> FALSE,
                  drawn |-> <<[ch |-> ch, x |-> x, y |-> y, entry |-> entry,
                               src |-> src, dst |-> dst]>>]

\* ------------------------------------------------------- ResourceManager

\* ResourceLoader::load of the texture creator: Ok(texture) as <<texture>>,
\* Err as <<>>.  No texture can be made of a surface without pixels.
loader_load(details) ==
    IF details.w = 0 \/ details.h = 0 THEN <<>> ELSE <<details>>

\* ResourceLoader::create of the texture creator: an empty w x h texture.
loader_create(w, h) == [w |-> w, h |-> h, blits |-> <<>>]

\* ResourceManager::load that inserts also under a key already present.
ResourceManager_load_overwrites(table, key, details) ==
    LET loaded == loader_load(details)
    IN  IF loaded = <<>>
        THEN [table |-> table, ret |-> <<>>,
              err |-> "Failed to load texture from surface"]
        ELSE [table |-> (key :> loaded[1]) @@ table, ret |-> loaded, err |-> ""]

\* ResourceManager::load: the table it leaves, Ok(resource) as <<resource>>
\* in ret, and the error message of an Err.
ResourceManager_load(table, key, details) ==
    IF key \in DOMAIN table
    THEN [table |-> table, ret |-> <<>>, err |-> "Value already exists"]
    ELSE LET loaded == loader_load(details)
         IN  IF loaded = <<>>
             THEN [table |-> table, ret |-> <<>>,
                   err |-> "Failed to load texture from surface"]
             ELSE [table |-> (key :> loaded[1]) @@ table, ret |-> loaded, err |-> ""]

\* ResourceManager::create: both branches insert the new resource.
ResourceManager_create(table, key, w, h) ==
    LET tex == loader_create(w, h)
    IN  [table |-> (key :> tex) @@ table, ret |-> <<tex>>, err |-> ""]

\* ResourceManager::get: Some(resource) as <<resource>>, None as <<>>.
ResourceManager_get(table, key) ==
    IF key \in DOMAIN table THEN <<table[key]>> ELSE <<>>

\* ----------------------------------------------------------------- canvas

\* The loop of render_line over text from its i-th character on, with the
\* pen at x in a viewport vw wide: a panic without an entry for a character;
\* else the remainder, from the first glyph that does not fit (<<>> when all
\* fitted).
RECURSIVE line_loop(_, _, _, _, _)
line_loop(font, vw, text, i, x) ==
    IF i > Len(text) THEN [panicked |-> FALSE, rem |-> <<>>]
    ELSE LET got == get_char(font, text[i])
         IN  IF got = <<>> THEN [panicked |-> TRUE, rem |-> <<>>]
             ELSE LET info == got[1]
                      src == AtlasEntry_bbox(info)
                  IN  IF x + info.width > vw
                      THEN [panicked |-> FALSE, rem |-> SubSeq(text, i, Len(text))]
                      ELSE line_loop(font, vw, text, i + 1,
                               x + (IF font.monospaced THEN font.glyph_width
                                    ELSE IF src.w <= 1 THEN font.whitespace_width
                                    ELSE info.width))

\* Renderer::render_line on the renderer r with viewport vw: Ok as an empty
\* rem, Err((tex, rem)) as rem; the line's texture is created under y_coord.
render_line(r, vw, y_coord, x_offset, text) ==
    IF ResourceManager_get(r.texture_table, ATLAS_KEY) = <<>>
    THEN [panicked |-> TRUE, texture_table |-> r.texture_table, rem |-> <<>>]
    ELSE LET made == ResourceManager_create(r.texture_table, y_coord, vw,
                                            r.loaded_font.glyph_height)
             line == line_loop(r.loaded_font, vw, text, 1, x_offset)
         IN  [panicked |-> line.panicked, texture_table |-> made.table,
              rem |-> line.rem]

\* ----------------------------------------------------------------- steps

Init ==
    /\ \E w \in Widths, h \in Heights, rh \in RowHeights :
          LET s == new(w, h, rh)
          IN  /\ content = s.content
              /\ width = s.width
              /\ height = s.height
              /\ row_height = s.row_height
              /\ cursor_abs = s.cursor_abs
              /\ cursor_col = s.cursor_col
              /\ cursor_row = s.cursor_row
              /\ highlight_mark = s.highlight_mark
              /\ cursor_enabled = s.cursor_enabled
              /\ panicked = s.panicked
    /\ overflow_checks \in BOOLEAN
    /\ op = "new"
    /\ pre = <<>>
    /\ ret = <<>>
    /\ op2 = "none"
    /\ pre2 = <<>>
    /\ push_only = TRUE
    /\ pushed = <<>>
    /\ frame = <<>>
    /\ frame2 = <<>>
    /\ loaded_font = FontDef_default
    /\ texture_table = <<>>
    /\ built = <<>>
    /\ tried = <<>>
    /\ drawn = <<>>
    /\ view_width = WIDTH
    /\ canvas_job = [pc |-> "idle", render_text |-> <<>>, y_coord |-> 0,
                     passed |-> <<>>, ret |-> <<>>]
    /\ res_call = <<>>

\* The history after operation name, which is not a push_char.
Logged(name) ==
    /\ op' = name
    /\ pre' = Self
    /\ op2' = IF name = "pop_char" THEN op ELSE "none"
    /\ push_only' = FALSE
    /\ pushed' = <<>>
    /\ UNCHANGED overflow_checks
    /\ UNCHANGED canvas_vars

\* The bookkeeping of a setter, whose name alone is recorded.
Noted(name) ==
    /\ op' = name
    /\ pre' = <<>>
    /\ op2' = "none"
    /\ push_only' = FALSE
    /\ pushed' = <<>>
    /\ UNCHANGED overflow_checks
    /\ UNCHANGED canvas_vars

\* The operation is no render_all: it draws nothing.
NoFrame ==
    /\ frame' = <<>>
    /\ frame2' = <<>>

\* push_char of a character of cs, on a content shorter than max.
PushFrom(cs, max) ==
    /\ ~panicked
    /\ Len(content) < max
    /\ \E c \in cs :
          /\ Install(push_char(Self, c))
          /\ pushed' = IF push_only THEN Append(pushed, c) ELSE pushed
    /\ op' = "push_char"
    /\ pre' = Self
    /\ op2' = "none"
    /\ ret' = <<>>
    /\ pre2' = <<>>
    /\ NoFrame
    /\ UNCHANGED <<push_only, overflow_checks>>
    /\ UNCHANGED canvas_vars

PushChar == PushFrom(Chars, MaxLen)

PushGlyph == PushFrom(Glyphs, MaxRenderLen)

CursorEnable ==
    /\ ~panicked
    /\ ~cursor_enabled
    /\ Install(cursor_enable(Self))
    /\ ret' = <<>>
    /\ pre2' = <<>>
    /\ NoFrame
    /\ Noted("cursor_enable")

SetHighlightMark ==
    /\ ~panicked
    /\ \E pos \in Marks : Install(set_highlight_mark(Self, pos))
    /\ ret' = <<>>
    /\ pre2' = <<>>
    /\ NoFrame
    /\ Noted("set_highlight_mark")

\* render_all at (0, 0), as the redraw calls it.
RenderAll ==
    /\ ~panicked
    /\ LET r == render_all(Self, LoadedFont, 0, 0)
       IN  /\ Install(r.self)
           /\ frame' = <<[placed |-> r.placed, highlights |-> r.highlights,
                          cursors |-> r.cursors, wraps |-> r.wraps,
                          origins |-> r.origins, ret |-> r.ret]>>
    /\ frame2' = IF op = "render_all" THEN frame ELSE <<>>
    /\ ret' = <<>>
    /\ pre2' = <<>>
    /\ Logged("render_all")

PopChar ==
    /\ ~panicked
    /\ LET r == pop_char(Self)
       IN  /\ Install(r.self)
           /\ ret' = r.ret
    /\ pre2' = IF op = "push_char" THEN <<pre>> ELSE <<>>
    /\ NoFrame
    /\ Logged("pop_char")

CursorForward ==
    /\ ~panicked
    /\ Install(cursor_forward(Self))
    /\ ret' = <<>>
    /\ pre2' = <<>>
    /\ NoFrame
    /\ Logged("cursor_forward")

CursorBack ==
    /\ ~panicked
    /\ Install(cursor_back(Self))
    /\ ret' = <<>>
    /\ pre2' = <<>>
    /\ NoFrame
    /\ Logged("cursor_back")

Clear ==
    /\ ~panicked
    /\ Install(clear(Self))
    /\ ret' = <<>>
    /\ pre2' = <<>>
    /\ NoFrame
    /\ Logged("clear")

SetWidth ==
    /\ ~panicked
    /\ \E w \in Widths : Install(set_width(Self, w))
    /\ ret' = <<>>
    /\ pre2' = <<>>
    /\ NoFrame
    /\ Logged("set_width")

\* The editing operations alone.
NextEdit == PushChar \/ PopChar \/ CursorForward \/ CursorBack

SpecEdit == Init /\ [][NextEdit]_vars

Next == PushChar \/ PopChar \/ CursorForward \/ CursorBack \/ Clear \/ SetWidth

Spec == Init /\ [][Next]_vars

\* Typing, moving back, selecting and redrawing.
NextRender ==
    PushGlyph \/ CursorBack \/ CursorEnable \/ SetHighlightMark \/ RenderAll

SpecRender == Init /\ [][NextRender]_vars

\* Typing, selecting, resetting the buffer and redrawing.
NextClear ==
    PushGlyph \/ CursorEnable \/ SetHighlightMark \/ Clear \/ RenderAll

SpecClear == Init /\ [][NextClear]_vars

\* The renderer as one value.
TheRenderer == [loaded_font |-> loaded_font, texture_table |-> texture_table]

\* build_atlas of a face of faces at a pixel size of sizes.
BuildFrom(faces, sizes) ==
    /\ ~panicked
    /\ canvas_job.pc # "loop"
    /\ \E face \in faces, font_size \in sizes, monospaced \in BOOLEAN :
          LET r == build_atlas(TheRenderer, face, font_size, monospaced)
          IN  /\ loaded_font' = r.loaded_font
              /\ texture_table' = r.texture_table
              /\ panicked' = r.panicked
              /\ built' = IF r.panicked THEN built ELSE r.built
              /\ tried' = <<[face |-> face, font_size |-> font_size,
                             monospaced |-> monospaced, before |-> TheRenderer]>>
    /\ drawn' = <<>>
    /\ UNCHANGED screen_vars
    /\ UNCHANGED canvas_vars

BuildAtlas == BuildFrom(Faces, FontSizes)

RenderFromAtlas ==
    /\ ~panicked
    /\ \E ch \in DrawnChars, x \in DrawnAt, y \in DrawnAt :
          LET r == render_from_atlas(TheRenderer, ch, x, y)
          IN  /\ panicked' = r.panicked
              /\ drawn' = r.drawn
    /\ UNCHANGED <<loaded_font, texture_table, built, tried>>
    /\ UNCHANGED screen_vars
    /\ UNCHANGED canvas_vars

\* Loading the font and drawing single glyphs from the atlas.
NextAtlas == BuildAtlas \/ RenderFromAtlas

SpecAtlas == Init /\ [][NextAtlas]_vars

\* The build_atlas call of main: the font file at FONT_SIZE.
LoadFont == BuildFrom({"regular"}, {FONT_SIZE})

\* The handler of a window resize: the renderer and the screen take the new
\* width.
Resized ==
    /\ ~panicked
    /\ canvas_job.pc # "loop"
    /\ \E w \in ViewWidths :
          /\ view_width' = w
          /\ Install(set_width(Self, w))
    /\ op' = "set_width"
    /\ pre' = Self
    /\ op2' = "none"
    /\ ret' = <<>>
    /\ pre2' = <<>>
    /\ push_only' = FALSE
    /\ pushed' = <<>>
    /\ NoFrame
    /\ UNCHANGED <<overflow_checks, canvas_job, res_call>>

\* The call of render_to_canvas, up to its loop.
RenderToCanvas ==
    /\ ~panicked
    /\ canvas_job.pc # "loop"
    /\ \E text \in Texts :
          canvas_job' = [pc |-> "loop", render_text |-> text, y_coord |-> 0,
                         passed |-> <<>>, ret |-> <<>>]
    /\ UNCHANGED <<panicked, view_width, res_call>>
    /\ UNCHANGED renderer_vars
    /\ UNCHANGED screen_vars

\* One iteration of the loop of render_to_canvas: render_line of the text
\* left, then either the return or the next line with the remainder.
CanvasLine ==
    /\ ~panicked
    /\ canvas_job.pc = "loop"
    /\ canvas_job.y_coord < MaxLines
    /\ LET r == render_line(TheRenderer, view_width, canvas_job.y_coord, 0,
                            canvas_job.render_text)
       IN  /\ panicked' = r.panicked
           /\ texture_table' = r.texture_table
           /\ canvas_job' =
                  IF r.panicked THEN canvas_job
                  ELSE IF r.rem = <<>>
                  THEN [canvas_job EXCEPT
                            !.pc = "done",
                            !.passed = <<canvas_job.render_text>>,
                            !.ret = <<Rect(0, 0, view_width,
                                           canvas_job.y_coord * loaded_font.glyph_height)>>]
                  ELSE [canvas_job EXCEPT
                            !.render_text = r.rem,
                            !.y_coord = @ + 1,
                            !.passed = <<canvas_job.render_text>>]
    /\ UNCHANGED <<loaded_font, built, tried, drawn, view_width, res_call>>
    /\ UNCHANGED screen_vars

\* Loading the font, resizing the window and filling the canvas with text.
NextCanvas == LoadFont \/ Resized \/ RenderToCanvas \/ CanvasLine

SpecCanvas == Init /\ [][NextCanvas]_vars

\* ResourceManager::load on the texture table.
TextureLoad ==
    /\ ~panicked
    /\ \E key \in Keys, details \in Surfaces :
          LET r == ResourceManager_load(texture_table, key, details)
          IN  /\ texture_table' = r.table
              /\ res_call' = <<[op |-> "load", key |-> key, details |-> details,
                                before |-> texture_table, ret |-> r.ret, err |-> r.err]>>
    /\ UNCHANGED <<panicked, loaded_font, built, tried, drawn, view_width, canvas_job>>
    /\ UNCHANGED screen_vars

\* ResourceManager::create on the texture table.
TextureCreate ==
    /\ ~panicked
    /\ \E key \in Keys, w \in Sizes, h \in Sizes :
          LET r == ResourceManager_create(texture_table, key, w, h)
          IN  /\ texture_table' = r.table
              /\ res_call' = <<[op |-> "create", key |-> key,
                                details |-> loader_create(w, h),
                                before |-> texture_table, ret |-> r.ret, err |-> r.err]>>
    /\ UNCHANGED <<panicked, loaded_font, built, tried, drawn, view_width, canvas_job>>
    /\ UNCHANGED screen_vars

\* ResourceManager::get on the texture table.
TextureGet ==
    /\ ~panicked
    /\ \E key \in Keys :
          res_call' = <<[op |-> "get", key |-> key, details |-> <<>>,
                        before |-> texture_table,
                        ret |-> ResourceManager_get(texture_table, key), err |-> ""]>>
    /\ UNCHANGED <<panicked, view_width, canvas_job>>
    /\ UNCHANGED renderer_vars
    /\ UNCHANGED screen_vars

\* The texture table on its own.
NextResources == TextureLoad \/ TextureCreate \/ TextureGet

SpecResources == Init /\ [][NextResources]_vars

\* ---------------------------------------------------------------- claims

\* The number of '\n' in v[1..k].
NewlinesBefore(v, k) == Cardinality({i \in 1..k : v[i] = NL})

\* The number of characters of v[1..k] after its last '\n' (all k without one).
CharsSinceNewline(v, k) ==
    LET nls == {i \in 1..k : v[i] = NL}
    IN  IF nls = {} THEN k
        ELSE k - (CHOOSE i \in nls : \A j \in nls : j <= i)

\* The row and column of the cursor by the breaks of a render_all pass at (0, 0).
LayoutBreaksBefore(s) ==
    LET wraps == render_all(s, LoadedFont, 0, 0).wraps
    IN  {i \in 1..s.cursor_abs : wraps[i]}

LayoutRow(s) == Cardinality(LayoutBreaksBefore(s))

LayoutCol(s) ==
    LET b == LayoutBreaksBefore(s)
    IN  IF b = {} THEN s.cursor_abs
        ELSE s.cursor_abs - (CHOOSE i \in b : \A j \in b : j <= i)

\* C1: after any sequence of push_char, pop_char, cursor_forward and
\* cursor_back on a fresh screen, cursor_row is the number of '\n' in
\* content[0 .. cursor_abs).
C1_CursorRowCountsNewlines ==
    ~panicked => cursor_row = NewlinesBefore(content, cursor_abs)

\* C2: push_char(c) followed immediately by pop_char() completes and restores
\* the content length and cursor_abs to what they were before the push.
C2_PushPopRestoresLength ==
    (op = "pop_char" /\ op2 = "push_char") =>
        /\ ~panicked
        /\ Len(content) = Len(pre2[1].content)
        /\ cursor_abs = pre2[1].cursor_abs

\* C3: in every state reachable through push_char, pop_char, cursor_forward,
\* cursor_back and clear, 0 <= cursor_abs <= length of the content.
C3_CursorAbsInRange ==
    cursor_abs >= 0 /\ cursor_abs <= Len(content)

\* C3's case: pop_char with the cursor at the end of a buffer of two or more
\* glyphs; the buffer shrinks and the cursor follows its end.
C3_Witness ==
    /\ op = "pop_char"
    /\ ~panicked
    /\ Len(pre.content) >= 2
    /\ pre.cursor_abs = Len(pre.content)
    /\ Len(content) = Len(pre.content) - 1
    /\ cursor_abs = Len(content)

\* C4: pop_char() with cursor_abs = 0 is a no-op for any buffer, a non-empty
\* one included: content, cursor_abs, cursor_row and cursor_col are unchanged
\* and no glyph is removed.
C4_PopAtZeroIsNoop ==
    (op = "pop_char" /\ pre.cursor_abs = 0) =>
        /\ ~panicked
        /\ ret = <<>>
        /\ content = pre.content
        /\ cursor_abs = pre.cursor_abs
        /\ cursor_row = pre.cursor_row
        /\ cursor_col = pre.cursor_col

\* C5: pop_char() on an empty buffer does not panic, returns no glyph and
\* leaves cursor_abs = 0.
C5_PopOnEmptyIsSafe ==
    (op = "pop_char" /\ Len(pre.content) = 0) =>
        /\ ~panicked
        /\ ret = <<>>
        /\ cursor_abs = 0

\* C6: cursor_forward() with cursor_abs = length and cursor_back() with
\* cursor_abs = 0 are silent no-ops: no error, and content, cursor_abs,
\* cursor_row and cursor_col are unchanged.
C6_BoundaryMovesAreNoops ==
    (\/ op = "cursor_forward" /\ pre.cursor_abs = Len(pre.content)
     \/ op = "cursor_back" /\ pre.cursor_abs = 0) =>
        /\ ~panicked
        /\ content = pre.content
        /\ cursor_abs = pre.cursor_abs
        /\ cursor_row = pre.cursor_row
        /\ cursor_col = pre.cursor_col

\* C7: pop_char() with cursor_abs = k > 0 removes exactly the glyph at index
\* k-1 and returns it, keeps the other glyphs in order and sets cursor_abs to
\* k-1, for every cursor position.
C7_PopRemovesGlyphBeforeCursor ==
    (op = "pop_char" /\ pre.cursor_abs > 0) =>
        /\ ~panicked
        /\ ret = <<pre.content[pre.cursor_abs]>>
        /\ content = vec_remove(pre.content, pre.cursor_abs - 1)
        /\ cursor_abs = pre.cursor_abs - 1

\* C8: when cursor_back() moves over a '\n', cursor_row decreases by exactly
\* one and cursor_col becomes the number of characters between the previous
\* '\n' (or the buffer start) and that '\n'.
C8_BackOverNewline ==
    (/\ op = "cursor_back"
     /\ pre.cursor_abs > 0
     /\ pre.content[pre.cursor_abs] = NL) =>
        /\ ~panicked
        /\ cursor_row = wrapping_sub(pre.cursor_row, 1)
        /\ cursor_col = CharsSinceNewline(pre.content, pre.cursor_abs - 1)

\* C9: from an empty screen, after pushing a sequence s with push_char only,
\* content is s, cursor_abs is |s|, cursor_row is the number of '\n' in s and
\* cursor_col the number of characters after the last '\n' in s.
C9_PushOnlyTracksText ==
    push_only =>
        /\ ~panicked
        /\ content = pushed
        /\ cursor_abs = Len(pushed)
        /\ cursor_row = NewlinesBefore(pushed, Len(pushed))
        /\ cursor_col = CharsSinceNewline(pushed, Len(pushed))

\* C9's case: a line, a newline and two more characters were pushed (the
\* shape of "Hi\n" followed by "AAA").
C9_Witness ==
    /\ push_only
    /\ pushed = <<"A", NL, "A", "A">>
    /\ cursor_row = 1
    /\ cursor_col = 2

\* C10: after any sequence of push_char, pop_char, cursor_forward, cursor_back
\* and set_width, cursor_row is the number of row breaks ('\n' and width
\* wraps) a render_all pass performs before reaching cursor_abs, and
\* cursor_col the number of glyphs since the last such break.
C10_CursorAgreesWithLayout ==
    ~panicked =>
        /\ cursor_row = LayoutRow(Self)
        /\ cursor_col = LayoutCol(Self)

\* The glyph indices the last render_all drew a highlight rectangle for.
Highlighted == {frame[1].highlights[k].index : k \in 1..Len(frame[1].highlights)}

\* The glyph indices i with lo < i <= hi.
HalfOpen(lo, hi) == {i \in 1..Len(content) : lo < i /\ i <= hi}

\* C11: render_all decides the wrap before it places a glyph, so no glyph is
\* placed at a running x_offset > 0 with x_offset + advance > width.
C11_WrapBeforePlacement ==
    frame # <<>> =>
        \A i \in 1..Len(content) :
            LET at == frame[1].origins[i]
            IN  at.x + FontTable[content[i]]._ax > width => at.x = 0

\* C12: render_all does not change the screen, and a second render_all right
\* after the first draws the same rectangles and returns the same rectangle.
C12_RenderAllIsPure ==
    /\ op = "render_all" => Self = pre
    /\ frame2 # <<>> => frame = frame2

\* C12's case: two render_all in a row over a content that wraps, with a
\* highlight and a cursor marker drawn.
C12_Witness ==
    /\ op = "render_all"
    /\ frame2 # <<>>
    /\ \E i \in 1..Len(content) : frame[1].wraps[i] /\ content[i] # NL
    /\ Len(frame[1].highlights) > 0
    /\ Len(frame[1].cursors) > 0

\* C13: with a mark m (not NONE) and the cursor at c, m > c included, the
\* glyphs render_all highlights are exactly those of (min(m,c), max(m,c)].
\* Stated for an enabled cursor.
C13_HighlightEitherDirection ==
    (frame # <<>> /\ cursor_enabled /\ highlight_mark # NONE) =>
        Highlighted =
            IF highlight_mark < cursor_abs
            THEN HalfOpen(highlight_mark, cursor_abs)
            ELSE HalfOpen(cursor_abs, highlight_mark)

\* C14 as written: whenever a mark m (not NONE) with m < cursor_abs is set,
\* render_all highlights exactly the glyphs i with m < i <= cursor_abs.
C14_HighlightAfterMark ==
    (frame # <<>> /\ highlight_mark # NONE /\ highlight_mark < cursor_abs) =>
        Highlighted = HalfOpen(highlight_mark, cursor_abs)

\* C14 amended: whenever the cursor is enabled and a mark m (not NONE) with
\* m < cursor_abs is set, render_all highlights exactly the glyphs i with
\* m < i <= cursor_abs; while the cursor is disabled it highlights none.
C14_HighlightAfterMarkEnabled ==
    /\ (/\ frame # <<>>
        /\ cursor_enabled
        /\ highlight_mark # NONE
        /\ highlight_mark < cursor_abs) =>
            Highlighted = HalfOpen(highlight_mark, cursor_abs)
    /\ (frame # <<>> /\ ~cursor_enabled) => Highlighted = {}

\* C14's case: three glyphs, the mark at 1 and the cursor at 3: glyphs 2 and 3
\* are highlighted, glyph 1 is not.
C14_Witness ==
    /\ frame # <<>>
    /\ cursor_enabled
    /\ Len(content) = 3
    /\ highlight_mark = 1
    /\ cursor_abs = 3
    /\ Highlighted = {2, 3}

\* The build_atlas that completed, the lookup table and the atlas surface it
\* installed.
Built == built[1]

Lookup == loaded_font.char_lookup

Atlas == texture_table[ATLAS_KEY]

\* C15: after a build_atlas that completes, every code point of
\* 0 .. ANSI_CHAR_RANGE - 1 has a record in the lookup table, and no two grid
\* cells were given the same code point.
C15_EveryCodePointHasOneRecord ==
    built # <<>> =>
        /\ \A cp \in 0 .. ANSI_CHAR_RANGE - 1 : get_char(loaded_font, cp) # <<>>
        /\ \A i, j \in DOMAIN Atlas.blits :
               i # j => Atlas.blits[i].ch # Atlas.blits[j].ch

\* C16: the atlas rectangle of every record build_atlas produced lies within
\* the atlas surface.
C16_EntriesWithinAtlas ==
    built # <<>> =>
        \A cp \in DOMAIN Lookup :
            LET bbox == AtlasEntry_bbox(Lookup[cp])
            IN  /\ bbox.x + bbox.w <= Atlas.w
                /\ bbox.y + bbox.h <= Atlas.h

\* C17: the origin stored in a glyph's record is a position its bitmap was
\* blitted to.
C17_EntryOriginIsBlitPosition ==
    built # <<>> =>
        \A cp \in DOMAIN Lookup :
            \E i \in DOMAIN Atlas.blits :
                /\ Atlas.blits[i].ch = cp
                /\ Atlas.blits[i].dest.x = Lookup[cp].x
                /\ Atlas.blits[i].dest.y = Lookup[cp].y

\* C18: the grid is one row of ANSI_CHAR_RANGE columns exactly when
\* ANSI_CHAR_RANGE * font_size <= ATLAS_MAX_WIDTH, and otherwise has
\* ATLAS_MAX_WIDTH / font_size columns and ceil(total / ATLAS_MAX_WIDTH) rows.
C18_GridDimensions ==
    built # <<>> =>
        LET total == ANSI_CHAR_RANGE * Built.font_size
        IN  IF total <= ATLAS_MAX_WIDTH
            THEN Built.rows = 1 /\ Built.cols = ANSI_CHAR_RANGE
            ELSE /\ Built.cols = ATLAS_MAX_WIDTH \div Built.font_size
                 /\ Built.rows = (total + ATLAS_MAX_WIDTH - 1) \div ATLAS_MAX_WIDTH

\* The glyphs the completed build_atlas loaded.
LoadedGlyphs ==
    {load_char(Built.face, Built.font_size, Atlas.blits[i].ch) : i \in DOMAIN Atlas.blits}

\* The largest member of the set S of naturals.
Largest(S) == CHOOSE m \in S : \A v \in S : v <= m

\* C19: the installed font carries each maximum under its own name, the
\* requested pixel size as font_pixel_size, and
\* glyph_height = max_ascent + max_descent.
C19_FontMetricsUnderOwnNames ==
    built # <<>> =>
        /\ loaded_font.max_ascent = Largest({g.bitmap_top : g \in LoadedGlyphs})
        /\ loaded_font.max_descent = Largest({g.height - g.bitmap_top : g \in LoadedGlyphs})
        /\ loaded_font.max_back = Largest({g.bitmap_left : g \in LoadedGlyphs})
        /\ loaded_font.max_forward = Largest({g.width - g.bitmap_left : g \in LoadedGlyphs})
        /\ loaded_font.glyph_width = Largest({g.width : g \in LoadedGlyphs})
        /\ loaded_font.font_pixel_size = Built.font_size
        /\ loaded_font.glyph_height = loaded_font.max_ascent + loaded_font.max_descent

\* C20: get_char_aligned_rect(x, y, g) is the rectangle at
\* x + (monospaced ? max_forward + g.bl : 0), y + (max_ascent - g.bt), as wide
\* as g (as whitespace_width for g.width <= 1) and as high as g, for every
\* glyph, whitespace included.  Stated of the whitespace glyphs render_all
\* places with it, for either value of monospaced.
C20_AlignedRectFormula ==
    frame # <<>> =>
        \A i \in 1..Len(content) :
            LET g == FontTable[content[i]]
                at == frame[1].origins[i]
                rect == frame[1].placed[i]
            IN  is_whitespace(g.ch) =>
                    /\ rect.x \in {at.x, at.x + LoadedFont.max_forward + g.bl}
                    /\ rect.y = at.y + (LoadedFont.max_ascent - g.bt)
                    /\ rect.w = (IF g.w > 1 THEN g.w ELSE LoadedFont.whitespace_width)
                    /\ rect.h = g.h

\* The last build_atlas called, and the part of it before it touches the
\* renderer.
Tried == tried[1]

TriedPass == atlas_pass(Tried.face, Tried.font_size)

\* C21: a build_atlas during which the rasterizer fails on a glyph, or whose
\* atlas is higher than ATLAS_MAX_HEIGHT, panics and leaves loaded_font and
\* the texture table as they were; and no state shows a lookup table without
\* the atlas texture or the texture without the table.
C21_AtlasAllOrNothing ==
    /\ (/\ tried # <<>>
        /\ \/ TriedPass.atlas_height > ATLAS_MAX_HEIGHT
           \/ atlas_failed(TriedPass)) =>
            /\ panicked
            /\ TheRenderer = Tried.before
    /\ (ATLAS_KEY \in DOMAIN texture_table) = (loaded_font # FontDef_default)
    /\ (ATLAS_KEY \in DOMAIN texture_table) = (built # <<>>)

\* C21's case: build_atlas on a face whose rasterizer fails on a code point
\* of the single row, in a renderer without a font.
C21_Witness ==
    /\ tried # <<>>
    /\ Tried.face = "damaged"
    /\ Tried.font_size = FONT_SIZE
    /\ atlas_failed(TriedPass)
    /\ panicked
    /\ loaded_font = FontDef_default

\* C22: push_char(c) followed immediately by pop_char() completes and leaves
\* the content, cursor_row and cursor_col as they were before the push, for
\* every c ('\n' included) and every cursor position.
C22_PushPopRestoresState ==
    (op = "pop_char" /\ op2 = "push_char") =>
        /\ ~panicked
        /\ content = pre2[1].content
        /\ cursor_row = pre2[1].cursor_row
        /\ cursor_col = pre2[1].cursor_col

\* C23: along push_char, pop_char, cursor_forward and cursor_back from an
\* empty screen cursor_row and cursor_col never go below 0: they never hold a
\* wrapped value, and a cursor_back (alone or in pop_char) that found
\* cursor_abs > 0 never panics.
C23_RowColNeverUnderflow ==
    /\ cursor_row >= 0
    /\ cursor_col >= 0
    /\ (panicked /\ op \in {"cursor_back", "pop_char"}) => pre.cursor_abs = 0

\* The (x_offset, y_offset) the last render_all had reached after glyph k and
\* the row break after it, if any.
OffsetAfter(k) ==
    IF k < Len(content) THEN frame[1].origins[k + 1]
    ELSE [x |-> frame[1].ret.w - frame[1].ret.x, y |-> frame[1].ret.h]

\* C24: with the cursor enabled and 0 <= cursor_abs <= length, a render_all
\* pass draws exactly one cursor marker, also for cursor_abs = 0 and an empty
\* buffer; for cursor_abs = k > 0 it is drawn at the offsets reached after
\* glyph k and its row break.
C24_OneCursorMarker ==
    (/\ frame # <<>>
     /\ cursor_enabled
     /\ cursor_abs >= 0
     /\ cursor_abs <= Len(content)) =>
        /\ Len(frame[1].cursors) = 1
        /\ cursor_abs > 0 =>
               /\ frame[1].cursors[1].x = OffsetAfter(cursor_abs).x
               /\ frame[1].cursors[1].y = OffsetAfter(cursor_abs).y

\* C25: clear() leaves the editing state of a fresh screen: empty content,
\* cursor_abs, cursor_row and cursor_col 0 and the mark NONE.
C25_ClearResetsMark ==
    op = "clear" =>
        /\ content = <<>>
        /\ cursor_abs = 0
        /\ cursor_row = 0
        /\ cursor_col = 0
        /\ highlight_mark = NONE

\* C26: each render_line of render_to_canvas that returns a remainder has
\* consumed at least one character: the text left for the next line is
\* shorter than the text that was passed, whatever the viewport width.
C26_RemainderShrinks ==
    (canvas_job.pc = "loop" /\ canvas_job.passed # <<>>) =>
        Len(canvas_job.render_text) < Len(canvas_job.passed[1])

\* The last call made of the texture table.
Call == res_call[1]

\* The table t holds, under every key but k, what the table u holds.
SameBut(t, u, k) ==
    /\ DOMAIN t \ {k} = DOMAIN u \ {k}
    /\ \A j \in DOMAIN t \ {k} : t[j] = u[j]

\* C27 as written: load under a key already present returns "Value already
\* exists" and leaves the table unchanged; load under a fresh key stores the
\* resource, and get(key) returns it; create replaces what the key holds.
C27_LoadNeverOverwrites ==
    res_call # <<>> =>
        /\ (Call.op = "load" /\ Call.key \in DOMAIN Call.before) =>
               /\ Call.err = "Value already exists"
               /\ texture_table = Call.before
        /\ (Call.op = "load" /\ Call.key \notin DOMAIN Call.before) =>
               /\ ResourceManager_get(texture_table, Call.key) = <<Call.details>>
               /\ SameBut(texture_table, Call.before, Call.key)
        /\ Call.op = "create" =>
               /\ ResourceManager_get(texture_table, Call.key) = <<Call.details>>
               /\ SameBut(texture_table, Call.before, Call.key)

\* C27 amended: load under a key already present returns "Value already
\* exists" and leaves the table unchanged; load under a fresh key stores the
\* resource the loader made, and get(key) returns it, or returns the loader's
\* error and leaves the table unchanged; create replaces what the key holds.
C27_LoadNeverOverwritesLoaded ==
    res_call # <<>> =>
        /\ (Call.op = "load" /\ Call.key \in DOMAIN Call.before) =>
               /\ Call.err = "Value already exists"
               /\ Call.ret = <<>>
               /\ texture_table = Call.before
        /\ (/\ Call.op = "load"
            /\ Call.key \notin DOMAIN Call.before
            /\ loader_load(Call.details) # <<>>) =>
               /\ Call.ret = <<Call.details>>
               /\ ResourceManager_get(texture_table, Call.key) = <<Call.details>>
               /\ SameBut(texture_table, Call.before, Call.key)
        /\ (/\ Call.op = "load"
            /\ Call.key \notin DOMAIN Call.before
            /\ loader_load(Call.details) = <<>>) =>
               /\ Call.ret = <<>>
               /\ Call.err # ""
               /\ texture_table = Call.before
        /\ Call.op = "create" =>
               /\ ResourceManager_get(texture_table, Call.key) = <<Call.details>>
               /\ SameBut(texture_table, Call.before, Call.key)

\* C27's case: a load under a key that holds another texture is refused and
\* the texture stays.
C27_Witness ==
    /\ res_call # <<>>
    /\ Call.op = "load"
    /\ Call.key \in DOMAIN Call.before
    /\ Call.before[Call.key] # Call.details
    /\ loader_load(Call.details) # <<>>
    /\ Call.err = "Value already exists"
    /\ texture_table[Call.key] = Call.before[Call.key]

====
